---------------------------- MODULE Spec2Model ----------------------------
(***************************************************************************)
(* A model of core/video_processor.py (class VideoProcessor):              *)
(*   - group_images_by_prefix          (pure function on file names)       *)
(*   - create_video_from_images        (one group -> one segment clip)     *)
(*   - create_multi_video_with_separators  (the multi-segment pipeline)    *)
(*   - detect_green_screen_segments    (the chroma-key scan)               *)
(* and of two invocations of the multi-segment pipeline on the threads     *)
(* that gui_web.py starts.                                                 *)
(*                                                                         *)
(* File names are sequences of one-character strings.  Durations are exact *)
(* rationals <<numerator, denominator>> in lowest terms (the nominal       *)
(* durations of the clips; the rounding of the floats that carry them is   *)
(* not modelled).                                                          *)
(***************************************************************************)
EXTENDS Integers, Sequences, FiniteSets, TLC

VARIABLES
    pc,                    \* position of the running invocation
    err,                   \* the exception that left the invocation, or "none"
    sink,                  \* percents passed to progress_callback, in order
    has_callback,          \* whether a progress_callback was supplied
    handles,               \* media handles opened and not yet closed
    \* create_multi_video_with_separators
    image_paths,           \* argument: the list of image paths
    audio_exists,          \* os.path.exists(audio_path)
    missing,               \* the image paths that do not exist
    corrupt,               \* the image paths ImageClip() fails to load
    audio_duration,        \* AudioFileClip(audio_path).duration
    green_screen_duration, \* argument
    image_groups,          \* dict prefix -> list, as a list in insertion order
    gi,                    \* index of the next group of sorted_groups
    video_segments,        \* the segments produced so far
    final_clips,           \* the timeline: segments and separators
    audio_segments,        \* the pieces of the synthesized audio track
    final_video,           \* duration of the concatenated timeline
    final_audio,           \* duration of the concatenated audio track
    written,               \* whether write_videofile wrote the output file
    \* detect_green_screen_segments
    video_duration,        \* VideoFileClip(video_path).duration
    samples,               \* outcome of each sample taken so far
    current_green_start,   \* start of the open interval, NoneTime if none
    green_segments,        \* the closed intervals
    result,                \* the returned list
    \* which operation the invocation is
    op,
    \* create_video_from_images as an operation of its own
    output_given,          \* whether output_path is not None
    per_image,             \* seconds_per_image, NoneDuration before line 164
    ii,                    \* index of the next image of the loop
    image_clips,           \* the clips made so far
    final_clip,            \* duration of the concatenated clip
    returned,              \* the value returned: "None", "clip", or "nothing"
    \* two concurrent invocations of create_multi_video_with_separators
    wpc,                   \* position of each invocation
    files,                 \* path -> the invocation that wrote it last
    touched,               \* path -> the invocations that read or wrote it
    muxed,                 \* output path -> the invocation whose audio it holds
    made_dir,              \* whether the directory of output_path was made
    \* get_aspect_ratio_dimensions
    aspect_ratio,          \* argument
    dimensions,            \* the pair returned, NoDimensions before the return
    \* group_images_by_prefix called twice
    given_paths,           \* the list as the caller built it
    second_groups,         \* the mapping the second call returns
    \* _is_green_screen_frame
    frame,                 \* the pixels of the frame, each an RGB triple
    threshold,             \* argument, a fraction
    returned_green,        \* the value returned, FALSE before the return
    \* gui_web: /create_video and /progress for one session
    progress_data,         \* the global dict: key -> entry
    threads                \* the create_video_thread workers, in start order

baseVars == <<pc, err, sink, has_callback, handles>>
multiVars == <<image_paths, audio_exists, missing, corrupt, audio_duration,
               green_screen_duration, image_groups, gi, video_segments,
               final_clips, audio_segments, final_video, final_audio, written>>
detectVars == <<video_duration, samples, current_green_start, green_segments,
                result>>
singleVars == <<output_given, per_image, ii, image_clips, final_clip, returned>>
concVars == <<wpc, files, touched, muxed>>
aspectVars == <<aspect_ratio, dimensions>>
groupVars == <<given_paths, second_groups>>
frameVars == <<frame, threshold, returned_green>>
guiVars == <<progress_data, threads>>
pureVars == <<aspectVars, groupVars, frameVars, guiVars>>
otherVars == <<made_dir, pureVars>>
vars == <<baseVars, op, multiVars, detectVars, singleVars, concVars, otherVars>>

-----------------------------------------------------------------------------
(* Characters and strings *)

LowerCase == <<"a","b","c","d","e","f","g","h","i","j","k","l","m",
               "n","o","p","q","r","s","t","u","v","w","x","y","z">>
UpperCase == <<"A","B","C","D","E","F","G","H","I","J","K","L","M",
               "N","O","P","Q","R","S","T","U","V","W","X","Y","Z">>
Digits == <<"0","1","2","3","4","5","6","7","8","9">>

\* The characters of the model in ASCII order, for str comparison.
AsciiOrder == <<"-", ".", "/">> \o Digits \o UpperCase \o <<"_">> \o LowerCase

Range(s) == {s[i] : i \in 1..Len(s)}

\* the classes [A-Za-z] and \d of the regular expressions
AlphaChars == Range(LowerCase) \cup Range(UpperCase)
DigitChars == Range(Digits)
IsAlpha(c) == c \in AlphaChars
IsDigit(c) == c \in DigitChars

\* the rank of each character in AsciiOrder
OrdOf == [c \in Range(AsciiOrder) |->
            CHOOSE i \in 1..Len(AsciiOrder) : AsciiOrder[i] = c]
Ord(c) == OrdOf[c]
DigitVal(c) == (CHOOSE i \in 1..Len(Digits) : Digits[i] = c) - 1

\* str.upper() on one character
ToUpper(c) ==
    IF c \in Range(LowerCase)
    THEN UpperCase[CHOOSE i \in 1..Len(LowerCase) : LowerCase[i] = c]
    ELSE c

StrUpper(s) == [i \in 1..Len(s) |-> ToUpper(s[i])]

\* Python's < on str: lexicographic by code point
RECURSIVE StrLess(_, _)
StrLess(s, t) ==
    IF t = <<>> THEN FALSE
    ELSE IF s = <<>> THEN TRUE
    ELSE IF s[1] # t[1] THEN Ord(s[1]) < Ord(t[1])
    ELSE StrLess(Tail(s), Tail(t))

\* index of the first c in s, 0 if there is none
FirstIndex(s, c) ==
    IF \E i \in 1..Len(s) : s[i] = c
    THEN CHOOSE i \in 1..Len(s) : s[i] = c /\ \A j \in 1..(i-1) : s[j] # c
    ELSE 0

LastIndex(s, c) ==
    IF \E i \in 1..Len(s) : s[i] = c
    THEN CHOOSE i \in 1..Len(s) : s[i] = c /\ \A j \in (i+1)..Len(s) : s[j] # c
    ELSE 0

StartsWith(s, p) == Len(s) >= Len(p) /\ SubSeq(s, 1, Len(p)) = p

\* os.path.basename: what follows the last "/"
Basename(path) == SubSeq(path, LastIndex(path, "/") + 1, Len(path))

\* str.split('_', 2): at most two splits, at most three parts
SplitUnderscore2(s) ==
    LET i == FirstIndex(s, "_")
        rest == SubSeq(s, i + 1, Len(s))
        j == FirstIndex(rest, "_")
    IN  IF i = 0 THEN <<s>>
        ELSE IF j = 0 THEN <<SubSeq(s, 1, i - 1), rest>>
        ELSE <<SubSeq(s, 1, i - 1), SubSeq(rest, 1, j - 1),
               SubSeq(rest, j + 1, Len(rest))>>

\* length of the maximal run of characters satisfying the class, from position i
RECURSIVE AlphaRunLen(_, _)
AlphaRunLen(s, i) ==
    IF i > Len(s) \/ ~IsAlpha(s[i]) THEN 0 ELSE 1 + AlphaRunLen(s, i + 1)

RECURSIVE DigitRunLen(_, _)
DigitRunLen(s, i) ==
    IF i > Len(s) \/ ~IsDigit(s[i]) THEN 0 ELSE 1 + DigitRunLen(s, i + 1)

\* re.match(r'^([A-Za-z]+)', s).group(1), <<>> when there is no match
LeadingAlpha(s) == SubSeq(s, 1, AlphaRunLen(s, 1))

\* int() of a string of digits
RECURSIVE ParseInt(_)
ParseInt(ds) ==
    IF ds = <<>> THEN 0
    ELSE 10 * ParseInt(SubSeq(ds, 1, Len(ds) - 1)) + DigitVal(ds[Len(ds)])

\* re.search(r'([A-Za-z]+)(\d+)', s): the leftmost position where a run of
\* letters is directly followed by a digit; 0 when there is no match.
SearchAlphaDigits(s) ==
    LET Hit(i) == /\ IsAlpha(s[i])
                  /\ LET e == i + AlphaRunLen(s, i)
                     IN  e <= Len(s) /\ IsDigit(s[e])
    IN  IF \E i \in 1..Len(s) : Hit(i)
        THEN CHOOSE i \in 1..Len(s) : Hit(i) /\ \A j \in 1..(i-1) : ~Hit(j)
        ELSE 0

\* int(match.group(2)) of that search, -1 when there is no match
SearchNumber(s) ==
    LET i == SearchAlphaDigits(s)
        e == i + AlphaRunLen(s, i)
    IN  IF i = 0 THEN -1
        ELSE ParseInt(SubSeq(s, e, e + DigitRunLen(s, e) - 1))

Str_image_ == <<"i","m","a","g","e","_">>
Str_DEFAULT == <<"D","E","F","A","U","L","T">>

-----------------------------------------------------------------------------
(* group_images_by_prefix *)

\* (mutation of PrefixOf: the prefix is not upper-cased)
PrefixOfNoUpper(path) ==
    LET filename == Basename(path)
        parts == SplitUnderscore2(filename)
        wrapped == /\ StartsWith(filename, Str_image_)
                   /\ FirstIndex(filename, "_") # 0
                   /\ Len(parts) >= 3
                   /\ LeadingAlpha(parts[3]) # <<>>
    IN  IF wrapped THEN LeadingAlpha(parts[3])
        ELSE IF LeadingAlpha(filename) # <<>>
             THEN LeadingAlpha(filename)
             ELSE Str_DEFAULT

\* The prefix under which one path is filed (the body of the first loop).
PrefixOf(path) ==
    LET filename == Basename(path)
        parts == SplitUnderscore2(filename)
        wrapped == /\ StartsWith(filename, Str_image_)
                   /\ FirstIndex(filename, "_") # 0
                   /\ Len(parts) >= 3
                   /\ LeadingAlpha(parts[3]) # <<>>
    IN  IF wrapped THEN StrUpper(LeadingAlpha(parts[3]))
        ELSE IF LeadingAlpha(filename) # <<>>
             THEN StrUpper(LeadingAlpha(filename))
             ELSE Str_DEFAULT

\* extract_number: the sort key of one path
extract_number(path) ==
    LET filename == Basename(path)
        parts == SplitUnderscore2(filename)
    IN  IF StartsWith(filename, Str_image_) /\ FirstIndex(filename, "_") # 0
        THEN IF Len(parts) >= 3 /\ SearchNumber(parts[3]) >= 0
             THEN SearchNumber(parts[3])
             ELSE 0
        ELSE IF SearchNumber(filename) >= 0
             THEN SearchNumber(filename)
             ELSE 0

\* groups[prefix].append(image_path) on a defaultdict(list); the dict keeps
\* its keys in insertion order.
DictAppend(groups, prefix, path) ==
    IF \E i \in 1..Len(groups) : groups[i].prefix = prefix
    THEN [i \in 1..Len(groups) |->
            IF groups[i].prefix = prefix
            THEN [groups[i] EXCEPT !.images = Append(@, path)]
            ELSE groups[i]]
    ELSE Append(groups, [prefix |-> prefix, images |-> <<path>>])

RECURSIVE FileAll(_, _)
FileAll(groups, paths) ==
    IF paths = <<>> THEN groups
    ELSE FileAll(DictAppend(groups, PrefixOf(paths[1]), paths[1]), Tail(paths))

\* list.sort(key=extract_number): a stable sort, as an insertion sort that
\* puts each element after the elements whose key is not greater.
InsertByKey(sorted, x) ==
    LET k == Cardinality({i \in 1..Len(sorted) :
                            extract_number(sorted[i]) <= extract_number(x)})
    IN  SubSeq(sorted, 1, k) \o <<x>> \o SubSeq(sorted, k + 1, Len(sorted))

RECURSIVE SortByNumber(_)
SortByNumber(images) ==
    IF images = <<>> THEN <<>>
    ELSE InsertByKey(SortByNumber(SubSeq(images, 1, Len(images) - 1)),
                     images[Len(images)])

group_images_by_prefix(paths) ==
    LET groups == FileAll(<<>>, paths)
    IN  [i \in 1..Len(groups) |->
            [groups[i] EXCEPT !.images = SortByNumber(@)]]

-----------------------------------------------------------------------------
(* Durations and percents: exact rationals <<n, d>>, d > 0, in lowest terms *)

RECURSIVE Gcd(_, _)
Gcd(a, b) == IF b = 0 THEN a ELSE Gcd(b, a % b)

Abs(x) == IF x < 0 THEN -x ELSE x

Rat(n, d) ==
    LET g == Gcd(Abs(n), d)
    IN  IF n = 0 THEN <<0, 1>> ELSE <<n \div g, d \div g>>

RatInt(i) == <<i, 1>>
RatAdd(a, b) == Rat(a[1] * b[2] + b[1] * a[2], a[2] * b[2])
RatMulInt(a, k) == Rat(a[1] * k, a[2])
RatLess(a, b) == a[1] * b[2] < b[1] * a[2]
RatLeq(a, b) == a[1] * b[2] <= b[1] * a[2]

RECURSIVE SumDurations(_)
SumDurations(clips) ==
    IF clips = <<>> THEN RatInt(0)
    ELSE RatAdd(clips[1].duration, SumDurations(Tail(clips)))

\* progress_callback(message, percent), when a callback was supplied
Report(s, percent) == IF has_callback THEN Append(s, percent) ELSE s

-----------------------------------------------------------------------------
(* Inputs of the pipeline *)

\* largest number of images with one prefix in an input list
MaxGroupSize == 2

\* the prefixes of the input lists
GroupLetters == <<"C", "A", "B">>

\* the orders in which an input list names its prefixes
GroupOrders == {<<"C", "A", "B">>, <<"B", "A", "C">>}

\* <<audio duration, separator duration>>: a separator shorter than the
\* audio, and one longer
DurationPairs == {<<3, 2>>, <<4, 5>>}

\* n paths <letter>n, ..., <letter>1
NamesOf(letter, n) == [k \in 1..n |-> <<letter, Digits[(n - k + 1) + 1]>>]

RECURSIVE InputOf(_, _, _)
InputOf(cnt, order, k) ==
    IF k > Len(order) THEN <<>>
    ELSE NamesOf(order[k], cnt[order[k]]) \o InputOf(cnt, order, k + 1)

MultiInputs ==
    {InputOf(cnt, order, 1) :
        cnt \in [Range(GroupLetters) -> 0..MaxGroupSize], order \in GroupOrders}

-----------------------------------------------------------------------------
(* validate_inputs *)

\* (mutation of validate_inputs: the image files are not looked for)
validate_inputsAudioOnly(paths, audioOk, gone) ==
    IF ~audioOk THEN "FileNotFoundError"
    ELSE IF Len(paths) = 0 THEN "ValueError"
    ELSE "none"

\* the exception validate_inputs raises, "none" when it returns True
validate_inputs(paths, audioOk, gone) ==
    IF ~audioOk THEN "FileNotFoundError"
    ELSE IF \E i \in 1..Len(paths) : paths[i] \in gone THEN "FileNotFoundError"
    ELSE IF Len(paths) = 0 THEN "ValueError"
    ELSE "none"

-----------------------------------------------------------------------------
(* create_video_from_images, called with output_path=None and no callback *)

\* (mutation of Rendered: each clip is put at the front of the list)
RECURSIVE RenderedInFront(_, _)
RenderedInFront(paths, bad) ==
    IF paths = <<>> THEN <<>>
    ELSE IF paths[1] \in bad THEN RenderedInFront(Tail(paths), bad)
    ELSE RenderedInFront(Tail(paths), bad) \o <<paths[1]>>

\* the images of the list that ImageClip() loads, in list order
RECURSIVE Rendered(_, _)
Rendered(paths, bad) ==
    IF paths = <<>> THEN <<>>
    ELSE IF paths[1] \in bad THEN Rendered(Tail(paths), bad)
    ELSE <<paths[1]>> \o Rendered(Tail(paths), bad)

\* (mutation of seconds_per_image: floor division)
seconds_per_imageFloor(audioDur, paths) == RatInt(audioDur \div Len(paths))

\* seconds_per_image = audio_duration / total_images
seconds_per_image(audioDur, paths) == Rat(audioDur, Len(paths))

\* The clip create_video_from_images returns for one group, or the exception
\* it raises: err, the sub-clips in order, and the duration of their
\* concatenation.
create_video_from_images(paths, audioOk, gone, bad, audioDur) ==
    LET v == validate_inputs(paths, audioOk, gone)
        clips == Rendered(paths, bad)
        spi == seconds_per_image(audioDur, paths)
    IN  IF v # "none"
        THEN [err |-> v, clips |-> <<>>, duration |-> RatInt(0)]
        ELSE IF clips = <<>>
        THEN [err |-> "ValueError", clips |-> <<>>, duration |-> RatInt(0)]
        ELSE [err |-> "none", clips |-> clips,
              duration |-> RatMulInt(spi, Len(clips))]

-----------------------------------------------------------------------------
(* create_multi_video_with_separators *)

\* sorted(image_groups.items()): the groups by ascending prefix
InsertByPrefix(sorted, g) ==
    LET k == Cardinality({i \in 1..Len(sorted) : StrLess(sorted[i].prefix, g.prefix)})
    IN  SubSeq(sorted, 1, k) \o <<g>> \o SubSeq(sorted, k + 1, Len(sorted))

RECURSIVE SortGroups(_)
SortGroups(groups) ==
    IF groups = <<>> THEN <<>>
    ELSE InsertByPrefix(SortGroups(SubSeq(groups, 1, Len(groups) - 1)),
                        groups[Len(groups)])

\* (mutation of sorted_groups: the groups in the order of the dict)
unsorted_groups == image_groups

sorted_groups == SortGroups(image_groups)
num_groups == Len(image_groups)

\* handles: <<kind, id>>
AudioHandle(id) == <<"audio", id>>
ImageHandle(path) == <<"image", path>>
SegmentHandle(prefix) == <<"segment", prefix>>
SeparatorHandle(k) == <<"separator", <<Digits[k + 1]>>>>
MainAudio == AudioHandle(<<>>)
FinalVideo == <<"final_video", <<>>>>

\* (mutation of M_Fail: the error is re-raised without a report)
M_FailSilent(e, s) ==
    /\ pc' = "failed"
    /\ err' = e
    /\ sink' = s

\* the except clause of the pipeline: report (message, 0) and re-raise
M_Fail(e, s) ==
    /\ pc' = "failed"
    /\ err' = e
    /\ sink' = Report(s, RatInt(0))

M_Validate ==
    /\ pc = "start"
    /\ LET v == validate_inputs(image_paths, audio_exists, missing)
       IN  IF v # "none"
           THEN M_Fail(v, sink)
           ELSE pc' = "group" /\ UNCHANGED <<err, sink>>
    /\ UNCHANGED <<has_callback, handles, multiVars, detectVars, op,
                   singleVars, concVars, otherVars>>

M_Group ==
    /\ pc = "group"
    /\ image_groups' = group_images_by_prefix(image_paths)
    /\ IF image_groups' = <<>>
       THEN M_Fail("ValueError", Report(sink, RatInt(5)))
       ELSE /\ pc' = "load_audio"
            /\ sink' = Report(sink, RatInt(5))
            /\ err' = err
    /\ UNCHANGED <<has_callback, handles, image_paths, audio_exists, missing,
                   corrupt, audio_duration, green_screen_duration, gi,
                   video_segments, final_clips, audio_segments, final_video,
                   final_audio, written, detectVars, op,
                   singleVars, concVars, otherVars>>

M_LoadAudio ==
    /\ pc = "load_audio"
    /\ pc' = "segments"
    /\ sink' = Report(Report(sink, RatInt(10)), RatInt(15))
    /\ handles' = handles \cup {MainAudio}
    /\ video_segments' = <<>>
    /\ gi' = 1
    /\ UNCHANGED <<err, has_callback, image_paths, audio_exists, missing,
                   corrupt, audio_duration, green_screen_duration,
                   image_groups, final_clips, audio_segments, final_video,
                   final_audio, written, detectVars, op,
                   singleVars, concVars, otherVars>>

\* (mutation of SegmentProgress: five percent for each group)
SegmentProgressPerGroup(i) == RatAdd(RatInt(15), RatInt((i + 1) * 5))

\* progress = 15 + ((i + 1) / num_groups) * 5, for the 0-based index i
SegmentProgress(i) == RatAdd(RatInt(15), Rat((i + 1) * 5, num_groups))

\* (mutation of M_Segment: the error of a group is not caught)
M_SegmentRaises ==
    /\ pc = "segments"
    /\ gi <= Len(sorted_groups)
    /\ LET g == sorted_groups[gi]
           r == create_video_from_images(g.images, audio_exists, missing,
                                         corrupt, audio_duration)
       IN  IF r.err = "none"
           THEN /\ sink' = Report(sink, SegmentProgress(gi - 1))
                /\ handles' = handles \cup {AudioHandle(g.prefix),
                                            SegmentHandle(g.prefix)}
                                      \cup {ImageHandle(p) : p \in Range(r.clips)}
                /\ video_segments' =
                     Append(video_segments,
                            [prefix |-> g.prefix, clips |-> r.clips,
                             duration |-> r.duration])
                /\ UNCHANGED <<pc, err>>
           ELSE /\ M_Fail(r.err, Report(sink, SegmentProgress(gi - 1)))
                /\ handles' = handles \cup {AudioHandle(g.prefix)}
                /\ video_segments' = video_segments
    /\ gi' = gi + 1
    /\ UNCHANGED <<has_callback, image_paths, audio_exists, missing,
                   corrupt, audio_duration, green_screen_duration,
                   image_groups, final_clips, audio_segments, final_video,
                   final_audio, written, detectVars, op, singleVars, concVars, otherVars>>

\* one iteration of the loop over sorted_groups
M_Segment ==
    /\ pc = "segments"
    /\ gi <= Len(sorted_groups)
    /\ LET g == sorted_groups[gi]
           r == create_video_from_images(g.images, audio_exists, missing,
                                         corrupt, audio_duration)
       IN  /\ sink' = Report(sink, SegmentProgress(gi - 1))
           /\ IF r.err = "none"
              THEN /\ handles' = handles \cup {AudioHandle(g.prefix),
                                               SegmentHandle(g.prefix)}
                                         \cup {ImageHandle(p) : p \in Range(r.clips)}
                   /\ video_segments' =
                        IF RatLess(RatInt(0), r.duration)
                        THEN Append(video_segments,
                                    [prefix |-> g.prefix, clips |-> r.clips,
                                     duration |-> r.duration])
                        ELSE video_segments
              ELSE /\ handles' = handles \cup {AudioHandle(g.prefix)}
                   /\ video_segments' = video_segments
    /\ gi' = gi + 1
    /\ UNCHANGED <<pc, err, has_callback, image_paths, audio_exists, missing,
                   corrupt, audio_duration, green_screen_duration,
                   image_groups, final_clips, audio_segments, final_video,
                   final_audio, written, detectVars, op,
                   singleVars, concVars, otherVars>>

M_SegmentsDone ==
    /\ pc = "segments"
    /\ gi > Len(sorted_groups)
    /\ IF video_segments = <<>>
       THEN M_Fail("ValueError", sink)
       ELSE /\ pc' = "assemble"
            /\ sink' = Report(sink, RatInt(20))
            /\ err' = err
    /\ UNCHANGED <<has_callback, handles, multiVars, detectVars, op,
                   singleVars, concVars, otherVars>>

\* the duration None of a clip, and the argument None of a duration
NoneDuration == <<0, 0>>
NoneSeconds == -99

\* ColorClip(size, color, duration=duration).duration
create_green_screen_clip(duration) ==
    IF duration = NoneSeconds THEN NoneDuration ELSE RatInt(duration)

\* audio_clip.subclip(0, t_end).duration: to the end of the clip for None,
\* counted from the end of the clip for a negative t_end
Subclip(clipDur, t_end) ==
    IF t_end = NoneSeconds THEN RatInt(clipDur - 0)
    ELSE IF t_end < 0 THEN RatInt((clipDur + t_end) - 0)
    ELSE RatInt(t_end - 0)

\* (mutation of Interleave: a green clip after every segment, the last too)
RECURSIVE InterleaveTrailing(_, _, _)
InterleaveTrailing(segments, i, sepDur) ==
    IF i > Len(segments) THEN <<>>
    ELSE <<[kind |-> "segment", prefix |-> segments[i].prefix,
            duration |-> segments[i].duration],
           [kind |-> "separator", prefix |-> <<>>,
            duration |-> create_green_screen_clip(sepDur)]>>
         \o InterleaveTrailing(segments, i + 1, sepDur)

\* the loop that builds final_clips: each segment, and a green clip after
\* every segment but the last
RECURSIVE Interleave(_, _, _)
Interleave(segments, i, sepDur) ==
    IF i > Len(segments) THEN <<>>
    ELSE <<[kind |-> "segment", prefix |-> segments[i].prefix,
            duration |-> segments[i].duration]>>
         \o (IF i < Len(segments)
             THEN <<[kind |-> "separator", prefix |-> <<>>,
                     duration |-> create_green_screen_clip(sepDur)]>>
             ELSE <<>>)
         \o Interleave(segments, i + 1, sepDur)

M_Assemble ==
    /\ pc = "assemble"
    /\ pc' = "coerce"
    /\ final_clips' = Interleave(video_segments, 1, green_screen_duration)
    /\ handles' = handles \cup {SeparatorHandle(k) : k \in 1..(Len(video_segments) - 1)}
    /\ UNCHANGED <<err, sink, has_callback, image_paths, audio_exists, missing,
                   corrupt, audio_duration, green_screen_duration,
                   image_groups, gi, video_segments, audio_segments,
                   final_video, final_audio, written, detectVars, op,
                   singleVars, concVars, otherVars>>

\* clip.duration = float(duration), 0 for None
CoerceDuration(d) == IF d = NoneDuration THEN RatInt(0) ELSE d

M_Coerce ==
    /\ pc = "coerce"
    /\ pc' = "concat"
    /\ final_clips' = [i \in 1..Len(final_clips) |->
                         [final_clips[i] EXCEPT !.duration = CoerceDuration(@)]]
    /\ UNCHANGED <<err, sink, has_callback, handles, image_paths, audio_exists,
                   missing, corrupt, audio_duration, green_screen_duration,
                   image_groups, gi, video_segments, audio_segments,
                   final_video, final_audio, written, detectVars, op,
                   singleVars, concVars, otherVars>>

\* concatenate_videoclips(final_clips, method="compose")
M_Concat ==
    /\ pc = "concat"
    /\ pc' = "audio"
    /\ final_video' = SumDurations(final_clips)
    /\ handles' = handles \cup {FinalVideo}
    /\ UNCHANGED <<err, sink, has_callback, image_paths, audio_exists, missing,
                   corrupt, audio_duration, green_screen_duration,
                   image_groups, gi, video_segments, final_clips,
                   audio_segments, final_audio, written, detectVars, op,
                   singleVars, concVars, otherVars>>

\* the loop that builds audio_segments: for i in range(n): the audio clip,
\* and audio_clip.subclip(0, green_screen_duration).volumex(0) if i < n - 1
RECURSIVE SynthAudio(_, _, _, _)
SynthAudio(n, i, audioDur, sepDur) ==
    IF i >= n THEN <<>>
    ELSE <<[kind |-> "audio", duration |-> RatInt(audioDur)]>>
         \o (IF i < n - 1
             THEN <<[kind |-> "silence",
                     duration |-> Subclip(audioDur, sepDur)]>>
             ELSE <<>>)
         \o SynthAudio(n, i + 1, audioDur, sepDur)

M_Audio ==
    /\ pc = "audio"
    /\ pc' = "conform"
    /\ audio_segments' = SynthAudio(num_groups, 0, audio_duration,
                                    green_screen_duration)
    /\ final_audio' = SumDurations(audio_segments')
    /\ UNCHANGED <<err, sink, has_callback, handles, image_paths, audio_exists,
                   missing, corrupt, audio_duration, green_screen_duration,
                   image_groups, gi, video_segments, final_clips, final_video,
                   written, detectVars, op,
                   singleVars, concVars, otherVars>>

\* (mutation of Conform: the audio track is cut to a shorter timeline)
ConformAudioToVideo(videoDur, audioDur) ==
    IF RatLess(audioDur, videoDur) THEN <<audioDur, audioDur>>
    ELSE <<videoDur, videoDur>>

\* if final_video.duration > final_video.audio.duration:
\*     final_video.duration = final_video.audio.duration
\* as the pair <<video duration, audio duration>> after the step
Conform(videoDur, audioDur) ==
    IF RatLess(audioDur, videoDur) THEN <<audioDur, audioDur>>
    ELSE <<videoDur, audioDur>>

M_Conform ==
    /\ pc = "conform"
    /\ pc' = "write"
    /\ final_video' = Conform(final_video, final_audio)[1]
    /\ final_audio' = Conform(final_video, final_audio)[2]
    /\ UNCHANGED <<err, sink, has_callback, handles, image_paths, audio_exists,
                   missing, corrupt, audio_duration, green_screen_duration,
                   image_groups, gi, video_segments, final_clips,
                   audio_segments, written, detectVars, op,
                   singleVars, concVars, otherVars>>

\* final_video.write_videofile(output_path, ...), which may fail
M_Write ==
    /\ pc = "write"
    /\ \E ok \in BOOLEAN :
         IF ok
         THEN /\ pc' = "cleanup"
              /\ written' = TRUE
              /\ UNCHANGED <<err, sink>>
         ELSE /\ M_Fail("OSError", sink)
              /\ written' = written
    /\ UNCHANGED <<has_callback, handles, image_paths, audio_exists, missing,
                   corrupt, audio_duration, green_screen_duration,
                   image_groups, gi, video_segments, final_clips,
                   audio_segments, final_video, final_audio, detectVars, op,
                   singleVars, concVars, otherVars>>

\* the close() calls after the write
M_Cleanup ==
    /\ pc = "cleanup"
    /\ pc' = "done"
    /\ handles' = handles \ ({MainAudio, FinalVideo}
                    \cup {SegmentHandle(video_segments[i].prefix) :
                            i \in 1..Len(video_segments)}
                    \cup {SeparatorHandle(k) : k \in 1..(Len(video_segments) - 1)})
    /\ UNCHANGED <<err, sink, has_callback, multiVars, detectVars, op,
                   singleVars, concVars, otherVars>>

-----------------------------------------------------------------------------
(* create_video_from_images as an operation of its own, step by step *)

FinalClip == <<"final_clip", <<>>>>

\* the except clause: report (message, 0) and re-raise
S_Fail(e, s) ==
    /\ pc' = "failed"
    /\ err' = e
    /\ sink' = Report(s, RatInt(0))

S_Validate ==
    /\ pc = "start"
    /\ LET v == validate_inputs(image_paths, audio_exists, missing)
       IN  IF v # "none"
           THEN S_Fail(v, sink)
           ELSE /\ pc' = "load_audio"
                /\ sink' = Report(sink, RatInt(10))
                /\ err' = err
    /\ UNCHANGED <<has_callback, handles, op, multiVars, detectVars,
                   singleVars, concVars, otherVars>>

\* AudioFileClip(audio_path), and the division
S_LoadAudio ==
    /\ pc = "load_audio"
    /\ pc' = "images"
    /\ handles' = handles \cup {MainAudio}
    /\ per_image' = seconds_per_image(audio_duration, image_paths)
    /\ sink' = Report(sink, RatInt(30))
    /\ image_clips' = <<>>
    /\ ii' = 1
    /\ UNCHANGED <<err, has_callback, op, multiVars, detectVars, output_given,
                   final_clip, returned, concVars, otherVars>>

\* progress = 30 + (i / total_images) * 40, for the 0-based index i
ImageProgress(i) == RatAdd(RatInt(30), Rat(i * 40, Len(image_paths)))

\* one iteration of the loop over image_paths; an image that fails to load
\* is skipped
S_Image ==
    /\ pc = "images"
    /\ ii <= Len(image_paths)
    /\ IF image_paths[ii] \in corrupt
       THEN UNCHANGED <<image_clips, handles, sink>>
       ELSE /\ image_clips' = Append(image_clips,
                                     [path |-> image_paths[ii],
                                      duration |-> per_image])
            /\ handles' = handles \cup {ImageHandle(image_paths[ii])}
            /\ sink' = Report(sink, ImageProgress(ii - 1))
    /\ ii' = ii + 1
    /\ UNCHANGED <<pc, err, has_callback, op, multiVars, detectVars,
                   output_given, per_image, final_clip, returned, concVars, otherVars>>

S_ImagesDone ==
    /\ pc = "images"
    /\ ii > Len(image_paths)
    /\ IF image_clips = <<>>
       THEN S_Fail("ValueError", sink)
       ELSE /\ pc' = "combine"
            /\ sink' = Report(sink, RatInt(70))
            /\ err' = err
    /\ UNCHANGED <<has_callback, handles, op, multiVars, detectVars,
                   singleVars, concVars, otherVars>>

\* concatenate_videoclips(image_clips).set_audio(audio_clip)
S_Combine ==
    /\ pc = "combine"
    /\ pc' = "output"
    /\ final_clip' = SumDurations(image_clips)
    /\ handles' = handles \cup {FinalClip}
    /\ sink' = Report(sink, RatInt(80))
    /\ UNCHANGED <<err, has_callback, op, multiVars, detectVars, output_given,
                   per_image, ii, image_clips, returned, concVars, otherVars>>

\* output_path given: make its directory and write the file, either of which
\* may fail, close the clips and return None
S_Write ==
    /\ pc = "output"
    /\ output_given
    /\ \E outcome \in {"written", "mkdir fails", "write fails"} :
         /\ made_dir' = (outcome # "mkdir fails")
         /\ IF outcome = "written"
            THEN /\ pc' = "done"
                 /\ written' = TRUE
                 /\ sink' = Report(sink, RatInt(100))
                 /\ handles' = handles \ ({FinalClip, MainAudio} \cup
                                  {ImageHandle(image_clips[k].path) :
                                      k \in 1..Len(image_clips)})
                 /\ returned' = "None"
                 /\ err' = err
            ELSE /\ S_Fail("OSError", sink)
                 /\ UNCHANGED <<written, handles, returned>>
    /\ UNCHANGED <<has_callback, op, image_paths, audio_exists, missing,
                   corrupt, audio_duration, green_screen_duration,
                   image_groups, gi, video_segments, final_clips,
                   audio_segments, final_video, final_audio, detectVars,
                   output_given, per_image, ii, image_clips, final_clip,
                   concVars, pureVars>>

\* (mutation of S_Return: the clips are closed before the clip is returned)
S_ReturnClosed ==
    /\ pc = "output"
    /\ ~output_given
    /\ pc' = "done"
    /\ returned' = "clip"
    /\ handles' = handles \ ({FinalClip, MainAudio} \cup
                     {ImageHandle(image_clips[k].path) :
                         k \in 1..Len(image_clips)})
    /\ UNCHANGED <<err, sink, has_callback, op, multiVars, detectVars,
                   output_given, per_image, ii, image_clips, final_clip,
                   concVars, otherVars>>

\* output_path is None: return the clip, nothing is closed
S_Return ==
    /\ pc = "output"
    /\ ~output_given
    /\ pc' = "done"
    /\ returned' = "clip"
    /\ UNCHANGED <<err, sink, has_callback, handles, op, multiVars, detectVars,
                   output_given, per_image, ii, image_clips, final_clip,
                   concVars, otherVars>>

-----------------------------------------------------------------------------
(* Two invocations of create_multi_video_with_separators, each on its own   *)
(* thread (gui_web.create_video), on different inputs and output paths      *)

Workers == {1, 2}

\* the writer of a file that does not exist
NoWorker == 0

\* the files and the progress_data entry of one invocation
InputFiles(w) == <<"input", w>>
OutputPath(w) == <<"output.mp4", w>>
ProgressKey(w) == <<"progress_data", w>>

\* temp_audiofile='temp-audio.m4a': one path of the working directory
TempAudio == <<"temp-audio.m4a", NoWorker>>

Resources ==
    {TempAudio} \cup {InputFiles(w) : w \in Workers}
                \cup {OutputPath(w) : w \in Workers}
                \cup {ProgressKey(w) : w \in Workers}

\* invocation w reads or writes the resources rs
Touch(w, rs) == [r \in Resources |->
                    IF r \in rs THEN touched[r] \cup {w} ELSE touched[r]]

\* a step of invocation w; the engine's own variables are not in use
ConcStep(w, from, to) ==
    /\ wpc[w] = from
    /\ wpc' = [wpc EXCEPT ![w] = to]
    /\ UNCHANGED <<baseVars, op, multiVars, detectVars, singleVars,
                   otherVars>>

\* the handler's reset of progress_data[key], validate_inputs, first report
W_Validate(w) ==
    /\ ConcStep(w, "start", "validated")
    /\ touched' = Touch(w, {InputFiles(w), ProgressKey(w)})
    /\ UNCHANGED <<files, muxed>>

\* group_images_by_prefix
W_Group(w) ==
    /\ ConcStep(w, "validated", "grouped")
    /\ touched' = Touch(w, {ProgressKey(w)})
    /\ UNCHANGED <<files, muxed>>

\* AudioFileClip(audio_path)
W_LoadAudio(w) ==
    /\ ConcStep(w, "grouped", "audio_loaded")
    /\ touched' = Touch(w, {InputFiles(w), ProgressKey(w)})
    /\ UNCHANGED <<files, muxed>>

\* the loop over the groups, which may leave no segment
W_Segments(w) ==
    /\ \E ok \in BOOLEAN :
         ConcStep(w, "audio_loaded", IF ok THEN "segmented" ELSE "failed")
    /\ touched' = Touch(w, {InputFiles(w), ProgressKey(w)})
    /\ UNCHANGED <<files, muxed>>

\* the timeline and the audio track, in memory
W_Timeline(w) ==
    /\ ConcStep(w, "segmented", "built")
    /\ UNCHANGED <<files, touched, muxed>>

\* write_videofile, first part: the audio track is written to temp_audiofile
W_WriteTempAudio(w) ==
    /\ ConcStep(w, "built", "audio_written")
    /\ files' = [files EXCEPT ![TempAudio] = w]
    /\ touched' = Touch(w, {TempAudio})
    /\ UNCHANGED muxed

\* write_videofile, second part: the frames and the file at temp_audiofile
\* are muxed into output_path; it fails if that file is gone
W_WriteVideo(w) ==
    /\ IF files[TempAudio] = NoWorker
       THEN /\ ConcStep(w, "audio_written", "failed")
            /\ touched' = Touch(w, {TempAudio, ProgressKey(w)})
            /\ UNCHANGED <<files, muxed>>
       ELSE /\ ConcStep(w, "audio_written", "video_written")
            /\ files' = [files EXCEPT ![OutputPath(w)] = w]
            /\ muxed' = [muxed EXCEPT ![w] = files[TempAudio]]
            /\ touched' = Touch(w, {TempAudio, OutputPath(w)})

\* write_videofile, last part (remove_temp=True): the temporary file is
\* removed if it exists
W_RemoveTemp(w) ==
    /\ ConcStep(w, "video_written", "temp_removed")
    /\ files' = [files EXCEPT ![TempAudio] = NoWorker]
    /\ touched' = Touch(w, {TempAudio})
    /\ UNCHANGED muxed

\* the close() calls, and the thread's last write to progress_data
W_Cleanup(w) ==
    /\ ConcStep(w, "temp_removed", "done")
    /\ touched' = Touch(w, {OutputPath(w), ProgressKey(w)})
    /\ UNCHANGED <<files, muxed>>

-----------------------------------------------------------------------------
(* get_aspect_ratio_dimensions *)

Str_1_1 == <<"1", ":", "1">>
Str_16_9 == <<"1", "6", ":", "9">>
Str_9_16 == <<"9", ":", "1", "6">>

\* the dict ASPECT_RATIOS: key, (width, height)
ASPECT_RATIOS ==
    << [key |-> Str_1_1, size |-> <<1080, 1080>>],
       [key |-> Str_16_9, size |-> <<1920, 1080>>],
       [key |-> Str_9_16, size |-> <<1080, 1920>>] >>

\* key in ASPECT_RATIOS, and ASPECT_RATIOS[key]
HasKey(d, k) == \E i \in 1..Len(d) : d[i].key = k
Lookup(d, k) == d[CHOOSE i \in 1..Len(d) : d[i].key = k].size

NoDimensions == <<0, 0>>

\* (mutation of get_aspect_ratio_dimensions: the default is the portrait
\* preset, the default of the callers)
get_aspect_ratio_dimensionsPortrait(ratio) ==
    IF HasKey(ASPECT_RATIOS, ratio) THEN Lookup(ASPECT_RATIOS, ratio)
    ELSE Lookup(ASPECT_RATIOS, Str_9_16)

get_aspect_ratio_dimensions(ratio) ==
    IF HasKey(ASPECT_RATIOS, ratio) THEN Lookup(ASPECT_RATIOS, ratio)
    ELSE Lookup(ASPECT_RATIOS, Str_16_9)

A_Call ==
    /\ pc = "call"
    /\ pc' = "returned"
    /\ dimensions' = get_aspect_ratio_dimensions(aspect_ratio)
    /\ UNCHANGED <<err, sink, has_callback, handles, op, multiVars,
                   detectVars, singleVars, concVars, made_dir, aspect_ratio,
                   groupVars, frameVars, guiVars>>

-----------------------------------------------------------------------------
(* detect_green_screen_segments *)

\* longest video scanned, in seconds
MaxDuration == 10

sample_interval == 2
NoneTime == -1
VideoHandle == <<"video", <<>>>>

\* total_samples = int(duration / sample_interval)
total_samples == video_duration \div sample_interval

\* np.arange(0, duration, sample_interval)[i]
SampleTime(i) == i * sample_interval

\* (mutation of TrackSample: an interval is closed at the last green sample)
TrackSampleEndAtLastGreen(start, segments, t, is_green) ==
    IF is_green /\ start = NoneTime THEN <<t, segments>>
    ELSE IF ~is_green /\ start # NoneTime
         THEN <<NoneTime, Append(segments, <<start, t - sample_interval>>)>>
         ELSE <<start, segments>>

\* (mutation of TrackSample: the open interval is not reset when it is closed)
TrackSampleNoReset(start, segments, t, is_green) ==
    IF is_green /\ start = NoneTime THEN <<t, segments>>
    ELSE IF ~is_green /\ start # NoneTime
         THEN <<start, Append(segments, <<start, t>>)>>
         ELSE <<start, segments>>

\* the body of the try block for one decoded sample: the open-interval start
\* and the closed intervals after it
TrackSample(start, segments, t, is_green) ==
    IF is_green /\ start = NoneTime THEN <<t, segments>>
    ELSE IF ~is_green /\ start # NoneTime
         THEN <<NoneTime, Append(segments, <<start, t>>)>>
         ELSE <<start, segments>>

\* (mutation of SkipSample: a failed sample drops the open interval)
SkipSampleDropsOpen(start, segments) == <<NoneTime, segments>>

\* the except branch for a sample that fails to decode: log and continue
SkipSample(start, segments) == <<start, segments>>

\* after the loop: a video that ends with green screen
CloseAtEnd(start, segments, duration) ==
    IF start # NoneTime THEN Append(segments, <<start, duration>>)
    ELSE segments

D_Load ==
    /\ pc = "start"
    /\ pc' = "scan"
    /\ sink' = Report(sink, RatInt(10))
    /\ handles' = handles \cup {VideoHandle}
    /\ current_green_start' = NoneTime
    /\ green_segments' = <<>>
    /\ UNCHANGED <<err, has_callback, multiVars, op, singleVars,
                   concVars, otherVars, video_duration, samples, result>>

\* one iteration of the sampling loop; the sample is green, not green, or
\* fails to decode
D_Sample ==
    /\ pc = "scan"
    /\ SampleTime(Len(samples)) < video_duration
    /\ LET i == Len(samples)
           t == SampleTime(i)
       IN  IF has_callback /\ total_samples = 0
           THEN \* i / total_samples raises outside the inner try
                /\ pc' = "failed"
                /\ err' = "ZeroDivisionError"
                /\ UNCHANGED <<sink, samples, current_green_start, green_segments>>
           ELSE /\ sink' = IF has_callback
                           THEN Append(sink, RatAdd(RatInt(10), Rat(i * 70, total_samples)))
                           ELSE sink
                /\ \E outcome \in {"green", "other", "fail"} :
                     /\ samples' = Append(samples, outcome)
                     /\ LET n == IF outcome = "fail"
                                 THEN SkipSample(current_green_start, green_segments)
                                 ELSE TrackSample(current_green_start, green_segments,
                                                  t, outcome = "green")
                        IN  /\ current_green_start' = n[1]
                            /\ green_segments' = n[2]
                /\ UNCHANGED <<pc, err>>
    /\ UNCHANGED <<has_callback, handles, multiVars, op, singleVars,
                   concVars, otherVars, video_duration, result>>

\* after the loop: close the open interval, close the video, return
D_Finish ==
    /\ pc = "scan"
    /\ SampleTime(Len(samples)) >= video_duration
    /\ pc' = "returned"
    /\ green_segments' = CloseAtEnd(current_green_start, green_segments, video_duration)
    /\ handles' = handles \ {VideoHandle}
    /\ sink' = Report(sink, RatInt(80))
    /\ result' = green_segments'
    /\ UNCHANGED <<err, has_callback, multiVars, op, singleVars,
                   concVars, otherVars, video_duration, samples,
                   current_green_start>>

-----------------------------------------------------------------------------
(* _is_green_screen_frame *)

Max3(a, b, c) == IF a >= b /\ a >= c THEN a ELSE IF b >= c THEN b ELSE c
Min3(a, b, c) == IF a <= b /\ a <= c THEN a ELSE IF b <= c THEN b ELSE c

\* the hue of a pixel as a fraction of the circle; of the three assignments
\* the last one whose index holds is the one that stays
Hue(p) ==
    LET r == p[1]
        g == p[2]
        b == p[3]
        cmax == Max3(r, g, b)
        delta == cmax - Min3(r, g, b)
    IN  IF delta = 0 THEN <<0, 1>>
        ELSE IF cmax = b
             THEN <<(60 * (r - g) + 240 * delta) % (360 * delta), 360 * delta>>
        ELSE IF cmax = g
             THEN <<(60 * (b - r) + 120 * delta) % (360 * delta), 360 * delta>>
        ELSE <<(60 * (g - b) + 360 * delta) % (360 * delta), 360 * delta>>

Saturation(p) ==
    LET cmax == Max3(p[1], p[2], p[3])
        delta == cmax - Min3(p[1], p[2], p[3])
    IN  IF cmax > 0 THEN <<delta, cmax>> ELSE <<0, 1>>

Value(p) == <<Max3(p[1], p[2], p[3]), 255>>

lower_green == << <<222, 1000>>, <<196, 1000>>, <<196, 1000>> >>
upper_green == << <<444, 1000>>, <<1, 1>>, <<1, 1>> >>

\* the mask of one pixel
InGreenRange(p) ==
    /\ RatLeq(lower_green[1], Hue(p)) /\ RatLeq(Hue(p), upper_green[1])
    /\ RatLeq(lower_green[2], Saturation(p))
    /\ RatLeq(Saturation(p), upper_green[2])
    /\ RatLeq(lower_green[3], Value(p)) /\ RatLeq(Value(p), upper_green[3])

green_pixels(f) == Cardinality({k \in 1..Len(f) : InGreenRange(f[k])})
total_pixels(f) == Len(f)

\* (mutation of _is_green_screen_frame: a fraction equal to the threshold
\* counts as green)
is_green_screen_frameAtLeast(f, t) ==
    RatLeq(t, <<green_pixels(f), total_pixels(f)>>)

\* green_percentage > threshold
is_green_screen_frame(f, t) ==
    RatLess(t, <<green_pixels(f), total_pixels(f)>>)

F_Call ==
    /\ pc = "call"
    /\ pc' = "returned"
    /\ returned_green' = is_green_screen_frame(frame, threshold)
    /\ UNCHANGED <<err, sink, has_callback, handles, op, multiVars,
                   detectVars, singleVars, concVars, made_dir, aspectVars,
                   groupVars, frame, threshold, guiVars>>

-----------------------------------------------------------------------------
(* gui_web: /create_video and /progress for one session *)

\* most /create_video requests of the session
MaxRequests == 2

\* key = f"{session_id}_create"
Key == "session_create"

\* the percents the engine reports to progress_callback, in order, on a run
\* with one group of one image: create_multi_video_with_separators, which
\* never reports 100, and create_video_from_images with an output path,
\* which reports 100 after the write and before it closes the clips
EngineReportsMulti == <<5, 10, 15, 20, 20>>
EngineReportsSingle == <<10, 30, 30, 70, 80, 100>>
EngineReports(multi_video_mode) ==
    IF multi_video_mode THEN EngineReportsMulti ELSE EngineReportsSingle

\* progress_data[key]['progress'] = progress; progress_data[key]['message'] =
\* message, on the entry the key holds when the statement runs
SetEntry(data, progress, message) ==
    [data EXCEPT ![Key] = [progress |-> progress, message |-> message]]
SetMessage(data, message) ==
    [data EXCEPT ![Key] = [@ EXCEPT !.message = message]]

\* GET /progress: the entry of the key, or the default
get_progress ==
    IF Key \in DOMAIN progress_data THEN progress_data[Key]
    ELSE [progress |-> 0, message |-> "Waiting..."]

\* POST /create_video for a session that exists: reset the entry and start
\* a worker thread
R_CreateVideo ==
    /\ Len(threads) < MaxRequests
    /\ \E multi_video_mode \in BOOLEAN :
         threads' = Append(threads, [multi_video_mode |-> multi_video_mode,
                                     reported |-> 0, state |-> "engine"])
    /\ progress_data' = [k \in {Key} |->
                           [progress |-> 0,
                            message |-> "Starting video creation..."]]
    /\ UNCHANGED <<baseVars, op, multiVars, detectVars, singleVars, concVars,
                   made_dir, aspectVars, groupVars, frameVars>>

\* the engine calls progress_callback with its next percent
T_Report(w) ==
    /\ w \in 1..Len(threads)
    /\ threads[w].state = "engine"
    /\ threads[w].reported < Len(EngineReports(threads[w].multi_video_mode))
    /\ LET k == threads[w].reported + 1
       IN  /\ progress_data' =
                SetEntry(progress_data,
                         EngineReports(threads[w].multi_video_mode)[k],
                         "Processing")
           /\ threads' = [threads EXCEPT ![w].reported = k]
    /\ UNCHANGED <<baseVars, op, multiVars, detectVars, singleVars, concVars,
                   made_dir, aspectVars, groupVars, frameVars>>

\* the engine raises: its except clause reports 0 and raises again
T_EngineRaises(w) ==
    /\ w \in 1..Len(threads)
    /\ threads[w].state = "engine"
    /\ progress_data' = SetEntry(progress_data, 0, "Error")
    /\ threads' = [threads EXCEPT ![w].state = "raised"]
    /\ UNCHANGED <<baseVars, op, multiVars, detectVars, singleVars, concVars,
                   made_dir, aspectVars, groupVars, frameVars>>

\* the engine returns: progress_data[key]['progress'] = 100
T_EngineReturns(w) ==
    /\ w \in 1..Len(threads)
    /\ threads[w].state = "engine"
    /\ threads[w].reported = Len(EngineReports(threads[w].multi_video_mode))
    /\ progress_data' = SetEntry(progress_data, 100,
                                 progress_data[Key].message)
    /\ threads' = [threads EXCEPT ![w].state = "completing"]
    /\ UNCHANGED <<baseVars, op, multiVars, detectVars, singleVars, concVars,
                   made_dir, aspectVars, groupVars, frameVars>>

\* progress_data[key]['message'] = 'Video creation completed!'
T_Completed(w) ==
    /\ w \in 1..Len(threads)
    /\ threads[w].state = "completing"
    /\ progress_data' = SetMessage(progress_data, "Video creation completed!")
    /\ threads' = [threads EXCEPT ![w].state = "finished"]
    /\ UNCHANGED <<baseVars, op, multiVars, detectVars, singleVars, concVars,
                   made_dir, aspectVars, groupVars, frameVars>>

\* except Exception: only the message is set
T_Except(w) ==
    /\ w \in 1..Len(threads)
    /\ threads[w].state = "raised"
    /\ progress_data' = SetMessage(progress_data, "Error: Traceback")
    /\ threads' = [threads EXCEPT ![w].state = "failed"]
    /\ UNCHANGED <<baseVars, op, multiVars, detectVars, singleVars, concVars,
                   made_dir, aspectVars, groupVars, frameVars>>

-----------------------------------------------------------------------------
(* Specifications *)

MultiIdle ==
    /\ image_paths = <<>> /\ audio_exists = TRUE /\ missing = {} /\ corrupt = {}
    /\ audio_duration = 0 /\ green_screen_duration = 0 /\ image_groups = <<>>
    /\ gi = 0 /\ video_segments = <<>> /\ final_clips = <<>>
    /\ audio_segments = <<>> /\ final_video = RatInt(0)
    /\ final_audio = RatInt(0) /\ written = FALSE

DetectIdle ==
    /\ video_duration = 0 /\ samples = <<>> /\ current_green_start = NoneTime
    /\ green_segments = <<>> /\ result = <<>>

SingleIdle ==
    /\ output_given = FALSE /\ per_image = NoneDuration /\ ii = 0
    /\ image_clips = <<>> /\ final_clip = NoneDuration /\ returned = "nothing"

ConcIdle ==
    /\ wpc = <<>> /\ files = <<>> /\ touched = <<>> /\ muxed = <<>>

AspectIdle == aspect_ratio = <<>> /\ dimensions = NoDimensions

GroupIdle == given_paths = <<>> /\ second_groups = <<>>

FrameIdle == frame = <<>> /\ threshold = RatInt(0) /\ returned_green = FALSE

GuiIdle == progress_data = <<>> /\ threads = <<>>

PureIdle == AspectIdle /\ GroupIdle /\ FrameIdle /\ GuiIdle

OtherIdle == made_dir = FALSE /\ PureIdle

\* --- group_images_by_prefix as a function of its argument

\* longest input list of the grouping
MaxImages == 3

SamplePaths ==
    { <<"A","1">>, <<"a","2">>, <<"A","1","0">>, <<"B","1">>,
      <<"A","_","2">>, <<"A","_","1">>, <<"A">>, <<"7">>,
      <<"x","/","B","2">>,
      Str_image_ \o <<"0","_","A","2">>,
      Str_image_ \o <<"1","_","b","1">>,
      Str_image_ \o <<"2","_","7">>,
      Str_image_ \o <<"5">> }

InitGroup ==
    /\ pc = "call" /\ err = "none" /\ sink = <<>> /\ has_callback = FALSE
    /\ handles = {}
    /\ image_paths \in UNION {[1..n -> SamplePaths] : n \in 0..MaxImages}
    /\ audio_exists = TRUE /\ missing = {} /\ corrupt = {}
    /\ audio_duration = 0 /\ green_screen_duration = 0 /\ image_groups = <<>>
    /\ gi = 0 /\ video_segments = <<>> /\ final_clips = <<>>
    /\ audio_segments = <<>> /\ final_video = RatInt(0)
    /\ final_audio = RatInt(0) /\ written = FALSE
    /\ DetectIdle /\ SingleIdle /\ ConcIdle
    /\ made_dir = FALSE /\ AspectIdle /\ FrameIdle /\ GuiIdle
    /\ given_paths = image_paths /\ second_groups = <<>>
    /\ op = "group"

\* (mutation of ListAfterCall: the argument is sorted in place)
ListAfterCallSorted(paths) == SortByNumber(paths)

\* the caller's list after a call: the loops only read it and fill new lists
ListAfterCall(paths) == paths

G_Call ==
    /\ pc = "call"
    /\ pc' = "returned"
    /\ image_groups' = group_images_by_prefix(image_paths)
    /\ image_paths' = ListAfterCall(image_paths)
    /\ UNCHANGED <<err, sink, has_callback, handles, audio_exists,
                   missing, corrupt, audio_duration, green_screen_duration, gi,
                   video_segments, final_clips, audio_segments, final_video,
                   final_audio, written, detectVars, op,
                   singleVars, concVars, otherVars>>

\* the same call again, on the same list object
G_CallAgain ==
    /\ pc = "returned"
    /\ pc' = "returned again"
    /\ second_groups' = group_images_by_prefix(image_paths)
    /\ image_paths' = ListAfterCall(image_paths)
    /\ UNCHANGED <<err, sink, has_callback, handles, audio_exists,
                   missing, corrupt, audio_duration, green_screen_duration,
                   image_groups, gi, video_segments, final_clips,
                   audio_segments, final_video, final_audio, written,
                   detectVars, op, singleVars, concVars, made_dir, aspectVars,
                   given_paths, frameVars, guiVars>>

NextGroup == G_Call \/ G_CallAgain

SpecGroup == InitGroup /\ [][NextGroup]_vars

\* --- create_multi_video_with_separators

InitMulti ==
    /\ pc = "start" /\ err = "none" /\ sink = <<>> /\ has_callback = TRUE
    /\ handles = {}
    /\ image_paths \in MultiInputs
    /\ audio_exists \in BOOLEAN
    /\ missing \in {{}} \cup {{p} : p \in Range(image_paths)}
    /\ corrupt \in IF audio_exists /\ missing = {}
                   THEN SUBSET Range(image_paths) ELSE {{}}
    /\ \E d \in DurationPairs :
         audio_duration = d[1] /\ green_screen_duration = d[2]
    /\ image_groups = <<>> /\ gi = 0 /\ video_segments = <<>>
    /\ final_clips = <<>> /\ audio_segments = <<>>
    /\ final_video = RatInt(0) /\ final_audio = RatInt(0) /\ written = FALSE
    /\ DetectIdle /\ SingleIdle /\ ConcIdle /\ OtherIdle
    /\ op = "multi"

NextMulti ==
    \/ M_Validate \/ M_Group \/ M_LoadAudio \/ M_Segment \/ M_SegmentsDone
    \/ M_Assemble \/ M_Coerce \/ M_Concat \/ M_Audio \/ M_Conform
    \/ M_Write \/ M_Cleanup

SpecMulti == InitMulti /\ [][NextMulti]_vars

\* --- create_video_from_images

\* longest input list of which every subset of images may fail to load
MaxSingleImages == 3

\* the image count of the documented example: 60 s of audio, 12 images
ExampleImages == 12

\* most images of a longer list that fail to load, unless all do
MaxCorrupt == 2

SingleCounts == 0..MaxSingleImages \cup {ExampleImages}
SingleDurations == {30, 60}

Decimal(k) ==
    IF k < 10 THEN <<Digits[k + 1]>>
    ELSE <<Digits[(k \div 10) + 1], Digits[(k % 10) + 1]>>

\* n paths A1, ..., An
SinglePaths(n) == [k \in 1..n |-> <<"A">> \o Decimal(k)]

InitSingle ==
    /\ pc = "start" /\ err = "none" /\ sink = <<>> /\ has_callback = TRUE
    /\ handles = {}
    /\ op = "single"
    /\ image_paths \in {SinglePaths(n) : n \in SingleCounts}
    /\ audio_exists \in BOOLEAN
    /\ missing \in {{}} \cup {{p} : p \in Range(image_paths)}
    /\ corrupt \in IF audio_exists /\ missing = {}
                   THEN {s \in SUBSET Range(image_paths) :
                            \/ Cardinality(s) <= MaxCorrupt
                            \/ Len(image_paths) <= MaxSingleImages
                            \/ s = Range(image_paths)}
                   ELSE {{}}
    /\ audio_duration \in SingleDurations
    /\ output_given \in BOOLEAN
    /\ green_screen_duration = 0 /\ image_groups = <<>> /\ gi = 0
    /\ video_segments = <<>> /\ final_clips = <<>> /\ audio_segments = <<>>
    /\ final_video = RatInt(0) /\ final_audio = RatInt(0) /\ written = FALSE
    /\ per_image = NoneDuration /\ ii = 0 /\ image_clips = <<>>
    /\ final_clip = NoneDuration /\ returned = "nothing"
    /\ DetectIdle /\ ConcIdle /\ OtherIdle

NextSingle ==
    \/ S_Validate \/ S_LoadAudio \/ S_Image \/ S_ImagesDone \/ S_Combine
    \/ S_Write \/ S_Return

SpecSingle == InitSingle /\ [][NextSingle]_vars

\* --- detect_green_screen_segments

InitDetect ==
    /\ pc = "start" /\ err = "none" /\ sink = <<>>
    /\ has_callback \in BOOLEAN
    /\ handles = {}
    /\ MultiIdle
    /\ video_duration \in 1..MaxDuration
    /\ samples = <<>> /\ current_green_start = NoneTime
    /\ green_segments = <<>> /\ result = <<>>
    /\ SingleIdle /\ ConcIdle /\ OtherIdle
    /\ op = "detect"

NextDetect == D_Load \/ D_Sample \/ D_Finish

SpecDetect == InitDetect /\ [][NextDetect]_vars

\* --- two concurrent invocations of create_multi_video_with_separators

InitConc ==
    /\ pc = "threads" /\ err = "none" /\ sink = <<>> /\ has_callback = TRUE
    /\ handles = {}
    /\ op = "concurrent"
    /\ MultiIdle /\ DetectIdle /\ SingleIdle /\ OtherIdle
    /\ wpc = [w \in Workers |-> "start"]
    /\ files = [r \in {TempAudio} \cup {OutputPath(w) : w \in Workers} |->
                  NoWorker]
    /\ touched = [r \in Resources |-> {}]
    /\ muxed = [w \in Workers |-> NoWorker]

NextConc ==
    \/ \E w \in Workers : W_Validate(w)
    \/ \E w \in Workers : W_Group(w)
    \/ \E w \in Workers : W_LoadAudio(w)
    \/ \E w \in Workers : W_Segments(w)
    \/ \E w \in Workers : W_Timeline(w)
    \/ \E w \in Workers : W_WriteTempAudio(w)
    \/ \E w \in Workers : W_WriteVideo(w)
    \/ \E w \in Workers : W_RemoveTemp(w)
    \/ \E w \in Workers : W_Cleanup(w)

SpecConc == InitConc /\ [][NextConc]_vars

\* --- get_aspect_ratio_dimensions as a function of its argument

\* longest aspect_ratio string
MaxRatioLen == 4

RatioChars == {"1", "6", "9", ":"}

InitAspect ==
    /\ pc = "call" /\ err = "none" /\ sink = <<>> /\ has_callback = FALSE
    /\ handles = {}
    /\ op = "aspect"
    /\ MultiIdle /\ DetectIdle /\ SingleIdle /\ ConcIdle
    /\ made_dir = FALSE /\ GroupIdle /\ FrameIdle /\ GuiIdle
    /\ aspect_ratio \in UNION {[1..n -> RatioChars] : n \in 0..MaxRatioLen}
    /\ dimensions = NoDimensions

NextAspect == A_Call

SpecAspect == InitAspect /\ [][NextAspect]_vars

\* --- _is_green_screen_frame as a function of its arguments

\* most pixels of a frame
MaxPixels == 3

\* chroma green, a darker studio green, yellow, and a green too dark to count
SamplePixels == {<<0, 255, 0>>, <<0, 177, 64>>, <<255, 255, 0>>, <<0, 40, 0>>}

Thresholds == {<<0, 1>>, <<1, 2>>, <<4, 5>>, <<1, 1>>}

InitFrame ==
    /\ pc = "call" /\ err = "none" /\ sink = <<>> /\ has_callback = FALSE
    /\ handles = {}
    /\ op = "frame"
    /\ MultiIdle /\ DetectIdle /\ SingleIdle /\ ConcIdle
    /\ made_dir = FALSE /\ AspectIdle /\ GroupIdle /\ GuiIdle
    /\ frame \in UNION {[1..n -> SamplePixels] : n \in 1..MaxPixels}
    /\ threshold \in Thresholds
    /\ returned_green = FALSE

NextFrame == F_Call

SpecFrame == InitFrame /\ [][NextFrame]_vars

\* --- gui_web: requests and workers of one session

InitGui ==
    /\ pc = "serving" /\ err = "none" /\ sink = <<>> /\ has_callback = TRUE
    /\ handles = {}
    /\ op = "gui"
    /\ MultiIdle /\ DetectIdle /\ SingleIdle /\ ConcIdle
    /\ made_dir = FALSE /\ AspectIdle /\ GroupIdle /\ FrameIdle
    /\ progress_data = <<>>
    /\ threads = <<>>

NextGui ==
    \/ R_CreateVideo
    \/ \E w \in 1..MaxRequests : T_Report(w)
    \/ \E w \in 1..MaxRequests : T_EngineRaises(w)
    \/ \E w \in 1..MaxRequests : T_EngineReturns(w)
    \/ \E w \in 1..MaxRequests : T_Completed(w)
    \/ \E w \in 1..MaxRequests : T_Except(w)

SpecGui == InitGui /\ [][NextGui]_vars

\* --- create_multi_video_with_separators for every kind of separator
\* duration: None, negative, zero, positive

SeparatorDurations == {NoneSeconds, -1, 0, 2}

InitSeparators ==
    /\ pc = "start" /\ err = "none" /\ sink = <<>> /\ has_callback = TRUE
    /\ handles = {}
    /\ image_paths \in MultiInputs
    /\ audio_exists = TRUE
    /\ missing = {}
    /\ corrupt \in {{}} \cup {{p} : p \in Range(image_paths)}
    /\ audio_duration = 3
    /\ green_screen_duration \in SeparatorDurations
    /\ image_groups = <<>> /\ gi = 0 /\ video_segments = <<>>
    /\ final_clips = <<>> /\ audio_segments = <<>>
    /\ final_video = RatInt(0) /\ final_audio = RatInt(0) /\ written = FALSE
    /\ DetectIdle /\ SingleIdle /\ ConcIdle /\ OtherIdle
    /\ op = "multi"

SpecSeparators == InitSeparators /\ [][NextMulti]_vars

\* --- one invocation of any of the three operations

InitEngine == InitMulti \/ InitSingle \/ InitDetect

NextEngine ==
    \/ op = "multi" /\ NextMulti
    \/ op = "single" /\ NextSingle
    \/ op = "detect" /\ NextDetect

SpecEngine == InitEngine /\ [][NextEngine]_vars

-----------------------------------------------------------------------------
(* Properties of the timeline and the audio track *)

SegmentIdx(clips) == {i \in 1..Len(clips) : clips[i].kind = "segment"}
SeparatorIdx(clips) == {i \in 1..Len(clips) : clips[i].kind = "separator"}
TimelineBuilt == pc \in {"coerce", "concat", "audio", "conform", "write",
                         "cleanup", "done"}
AudioBuilt == pc \in {"conform", "write", "cleanup", "done"}
Conformed == pc \in {"write", "cleanup", "done"}

\* C1: every Segment placed in the Timeline lasts exactly the reference audio
\* duration, whichever images of its group rendered or failed to render.
C1_SegmentLastsFullAudio ==
    TimelineBuilt =>
        \A i \in SegmentIdx(final_clips) :
            final_clips[i].duration = RatInt(audio_duration)

\* C2: with S >= 1 segments the Timeline holds exactly S - 1 separators, each
\* between two consecutive segments; it starts and ends with a segment, and
\* the segments are the produced ones, in order.
C2_SeparatorsOnlyBetween ==
    TimelineBuilt =>
        LET S == Len(video_segments)
        IN  /\ S >= 1
            /\ Cardinality(SegmentIdx(final_clips)) = S
            /\ Cardinality(SeparatorIdx(final_clips)) = S - 1
            /\ final_clips[1].kind = "segment"
            /\ final_clips[Len(final_clips)].kind = "segment"
            /\ \A i \in 1..(Len(final_clips) - 1) :
                 final_clips[i].kind # final_clips[i + 1].kind
            /\ \A k \in 1..S :
                 final_clips[2 * k - 1].prefix = video_segments[k].prefix

C2_Witness ==
    /\ pc = "coerce"
    /\ Len(video_segments) = 3
    /\ Cardinality(SeparatorIdx(final_clips)) = 2
    /\ final_clips[2].kind = "separator" /\ final_clips[4].kind = "separator"

\* C3: the audio track is one full copy of the reference audio per Segment of
\* the Timeline and one silent span of the separator duration per Separator,
\* alternating, so it lasts S * audio_duration + (S - 1) * separator duration
\* for the S segments of the Timeline.
C3_AudioMirrorsTimeline ==
    AudioBuilt =>
        LET S == Cardinality(SegmentIdx(final_clips))
        IN  /\ Len(audio_segments) = Len(final_clips)
            /\ \A i \in 1..Len(audio_segments) :
                 /\ (final_clips[i].kind = "segment") =>
                      audio_segments[i] = [kind |-> "audio",
                                           duration |-> RatInt(audio_duration)]
                 /\ (final_clips[i].kind = "separator") =>
                      audio_segments[i] = [kind |-> "silence",
                                           duration |-> RatInt(green_screen_duration)]
            /\ final_audio = RatInt(S * audio_duration
                                    + (S - 1) * green_screen_duration)

-----------------------------------------------------------------------------
(* Properties of the chroma-key scan *)

NoFailedSample == \A i \in 1..Len(samples) : samples[i] # "fail"

\* sample i (1-based) starts a maximal run of green samples
IsRunStart(i) ==
    /\ samples[i] = "green"
    /\ i = 1 \/ samples[i - 1] # "green"

\* where the run that starts at sample i ends: the first later sample that
\* is not green, or the end of the video
RunEnd(i) ==
    LET later == {j \in (i + 1)..Len(samples) : samples[j] # "green"}
    IN  IF later = {} THEN video_duration
        ELSE SampleTime((CHOOSE j \in later : \A k \in later : j <= k) - 1)

RunIntervals ==
    {<<SampleTime(i - 1), RunEnd(i)>> : i \in {j \in 1..Len(samples) : IsRunStart(j)}}

\* C5: when every sample is classified, the scan returns exactly one interval
\* per maximal run of green samples, from the run's first sample to the first
\* sample after it that is not green, or to the video's end.
C5_OneIntervalPerGreenRun ==
    (pc = "returned" /\ NoFailedSample) =>
        /\ Range(result) = RunIntervals
        /\ Len(result) = Cardinality(RunIntervals)

C5_Witness ==
    /\ pc = "returned"
    /\ video_duration = 10
    /\ samples = <<"green", "green", "green", "other", "other">>
    /\ result = << <<0, 6>> >>

\* C6: the returned intervals have start < end, ascend by start and do not
\* overlap, whatever samples were green, not green or failed.
C6_IntervalsWellFormed ==
    pc = "returned" =>
        /\ \A i \in 1..Len(result) : result[i][1] < result[i][2]
        /\ \A i \in 1..(Len(result) - 1) :
             /\ result[i][1] < result[i + 1][1]
             /\ result[i][2] <= result[i + 1][1]

C6_Witness ==
    /\ pc = "returned"
    /\ Len(result) >= 2
    /\ \E i \in 1..Len(samples) : samples[i] = "fail"
    /\ samples[Len(samples)] = "green"

\* C7: a scan whose every sample failed to decode ends with an error, never
\* with a returned list; a scan with a processed sample and no green sample
\* returns the empty list.
C7_FullyFailedScanIsError ==
    /\ (pc = "returned" /\ samples # <<>>) =>
          \E i \in 1..Len(samples) : samples[i] # "fail"
    /\ (/\ pc = "returned"
        /\ \E i \in 1..Len(samples) : samples[i] # "fail"
        /\ \A i \in 1..Len(samples) : samples[i] # "green") => result = <<>>

-----------------------------------------------------------------------------
(* Properties of the grouping *)

Count(seq, x) == Cardinality({i \in 1..Len(seq) : seq[i] = x})

GroupedPaths == UNION {Range(image_groups[k].images) : k \in 1..Len(image_groups)}

\* how often a path occurs in the groups, all groups together
GroupedCount(p) ==
    Cardinality({o \in UNION {{<<k, i>> : i \in 1..Len(image_groups[k].images)} :
                                k \in 1..Len(image_groups)} :
                    image_groups[o[1]].images[o[2]] = p})

\* every occurrence of an input path is in the groups, once, all occurrences
\* of a path in one group; no group is empty and no prefix has two groups
IsPartition ==
    /\ \A p \in Range(image_paths) \cup GroupedPaths :
         /\ GroupedCount(p) = Count(image_paths, p)
         /\ Cardinality({k \in 1..Len(image_groups) :
                           p \in Range(image_groups[k].images)}) = 1
    /\ \A k \in 1..Len(image_groups) : image_groups[k].images # <<>>
    /\ \A k, l \in 1..Len(image_groups) :
         image_groups[k].prefix = image_groups[l].prefix => k = l

\* the leading run of letters of a name, read off the name
LeadingRun(u) ==
    LET n == CHOOSE k \in 0..Len(u) :
                /\ \A j \in 1..k : IsAlpha(u[j])
                /\ k = Len(u) \/ ~IsAlpha(u[k + 1])
    IN  SubSeq(u, 1, n)

\* a base name image_<index>_<originalname>: the position of the underscore
\* that ends <index>, 0 for any other name
WrapperEnd(b) ==
    IF /\ StartsWith(b, Str_image_)
       /\ \E k \in (Len(Str_image_) + 1)..Len(b) : b[k] = "_"
    THEN CHOOSE k \in (Len(Str_image_) + 1)..Len(b) :
            /\ b[k] = "_"
            /\ \A j \in (Len(Str_image_) + 1)..(k - 1) : b[j] # "_"
    ELSE 0

IsWrapped(b) == WrapperEnd(b) # 0
OriginalName(b) == SubSeq(b, WrapperEnd(b) + 1, Len(b))

KeyOfName(u) == IF LeadingRun(u) = <<>> THEN Str_DEFAULT ELSE StrUpper(LeadingRun(u))

\* C8 as first stated: the grouping is a partition of its input, and the key
\* of every path is the upper-cased leading run of letters of its base name.
C8_KeyIsLeadingRunOfBaseName ==
    pc = "returned" =>
        /\ IsPartition
        /\ \A k \in 1..Len(image_groups) :
             \A p \in Range(image_groups[k].images) :
                image_groups[k].prefix = StrUpper(LeadingRun(Basename(p)))

\* C8: the grouping is a partition of its input (each occurrence of a path in
\* exactly one group, no group empty); the key of a path is the upper-cased
\* leading run of letters of its base name, taken from <originalname> for a
\* base name image_<index>_<originalname> whose <originalname> starts with a
\* letter, and DEFAULT for a base name, not of that form, that starts with no
\* letter.
C8_PartitionByPrefix ==
    pc = "returned" =>
        /\ IsPartition
        /\ \A k \in 1..Len(image_groups) :
             \A p \in Range(image_groups[k].images) :
                LET b == Basename(p)
                IN  /\ (IsWrapped(b) /\ LeadingRun(OriginalName(b)) # <<>>) =>
                          image_groups[k].prefix = KeyOfName(OriginalName(b))
                    /\ ~IsWrapped(b) =>
                          image_groups[k].prefix = KeyOfName(b)

C8_Witness ==
    /\ pc = "returned"
    /\ Len(image_groups) >= 2
    /\ \E k \in 1..Len(image_groups) :
         /\ image_groups[k].prefix = <<"A">>
         /\ {<<"a","2">>, Str_image_ \o <<"0","_","A","2">>}
              \subseteq Range(image_groups[k].images)
    /\ \E k \in 1..Len(image_groups) : image_groups[k].prefix = Str_DEFAULT

\* the first integer after the leading run of letters of a name, 0 if none
FirstIntegerAfterPrefix(u) ==
    LET n == Len(LeadingRun(u))
        at == {e \in (n + 1)..Len(u) : IsDigit(u[e])}
        e == CHOOSE x \in at : \A y \in at : x <= y
    IN  IF at = {} THEN 0
        ELSE ParseInt(SubSeq(u, e, e + DigitRunLen(u, e) - 1))

Unwrapped(p) ==
    IF IsWrapped(Basename(p)) THEN OriginalName(Basename(p)) ELSE Basename(p)

\* C9: in every group the images ascend by the first integer that follows the
\* prefix in the unwrapped name, next to the prefix or not (0 if there is
\* none), and images with equal integers keep their input order.
C9_SortedByFirstInteger ==
    pc = "returned" =>
        \A k \in 1..Len(image_groups) :
            LET L == image_groups[k].images
            IN  \A i, j \in 1..Len(L) :
                    i < j =>
                        LET ki == FirstIntegerAfterPrefix(Unwrapped(L[i]))
                            kj == FirstIntegerAfterPrefix(Unwrapped(L[j]))
                        IN  /\ ki <= kj
                            /\ ki = kj =>
                                 \E a, b \in 1..Len(image_paths) :
                                    /\ a <= b
                                    /\ image_paths[a] = L[i]
                                    /\ image_paths[b] = L[j]

\* C10: a base name image_<index>_<originalname> is filed and sorted by
\* <originalname> alone; a name without a leading run of letters (the
\* <originalname>, or a name that is not wrapped) goes to DEFAULT.
C10_WrapperStripped ==
    pc = "returned" =>
        \A k \in 1..Len(image_groups) :
            \A p \in Range(image_groups[k].images) :
                LET b == Basename(p)
                    o == OriginalName(b)
                IN  /\ IsWrapped(b) =>
                          /\ image_groups[k].prefix = KeyOfName(o)
                          /\ extract_number(p) =
                                IF SearchNumber(o) >= 0 THEN SearchNumber(o) ELSE 0
                    /\ (~IsWrapped(b) /\ LeadingRun(b) = <<>>) =>
                          image_groups[k].prefix = Str_DEFAULT

\* C11: the mapping group_images_by_prefix returns is ordered by ascending
\* prefix: iterating it yields the prefixes in ascending lexicographic order,
\* whatever the order of the input paths.
C11_MappingAscending ==
    pc = "returned" =>
        \A k \in 1..(Len(image_groups) - 1) :
            StrLess(image_groups[k].prefix, image_groups[k + 1].prefix)

\* C12: the Segments appear in the Timeline in ascending lexicographic order
\* of their group prefixes, whatever the order of the input paths and
\* whichever groups were dropped; so do the segments while they are produced.
C12_SegmentsAscending ==
    /\ \A i, j \in 1..Len(video_segments) :
          i < j => StrLess(video_segments[i].prefix, video_segments[j].prefix)
    /\ TimelineBuilt =>
          \A i, j \in SegmentIdx(final_clips) :
              i < j => StrLess(final_clips[i].prefix, final_clips[j].prefix)

\* a timeline of two segments made from an input that names the prefixes out
\* of order and has one group dropped
C12_Witness ==
    /\ TimelineBuilt
    /\ Len(image_groups) = 3
    /\ StrLess(image_groups[2].prefix, image_groups[1].prefix)
    /\ Cardinality(SegmentIdx(final_clips)) = 2

-----------------------------------------------------------------------------
(* Properties of create_video_from_images *)

Divided == per_image # NoneDuration

\* C13: the per-image display duration is the audio duration divided by the
\* image count (per_image * count = audio_duration), every clip made gets that
\* duration, and with an audio to measure an image count of 0 fails with the
\* ValueError of the validation, before the division is attempted.
C13_DurationIsAudioOverCount ==
    /\ Divided =>
          /\ Len(image_paths) > 0
          /\ per_image[1] * Len(image_paths) = audio_duration * per_image[2]
          /\ \A k \in 1..Len(image_clips) : image_clips[k].duration = per_image
    /\ (audio_exists /\ Len(image_paths) = 0) =>
          /\ ~Divided
          /\ pc \in {"start", "failed"}
          /\ pc = "failed" => err = "ValueError"

\* 60 s of audio over 12 images: 5 s each
C13_Witness ==
    /\ Divided
    /\ audio_duration = 60 /\ Len(image_paths) = ExampleImages
    /\ per_image = RatInt(5)
    /\ Len(image_clips) = ExampleImages

\* C14: validating an empty image list fails with ValueError whether or not
\* the audio path exists; validating a non-empty list of existing images with
\* an audio path that does not exist fails with FileNotFoundError.
C14_EmptyListIsValueError ==
    pc = "failed" =>
        /\ image_paths = <<>> => err = "ValueError"
        /\ (image_paths # <<>> /\ missing = {} /\ ~audio_exists) =>
              err = "FileNotFoundError"

-----------------------------------------------------------------------------
(* Properties of the failure paths *)

Pipeline == op \in {"single", "multi"}

InputsInvalid ==
    \/ ~audio_exists
    \/ image_paths = <<>>
    \/ \E i \in 1..Len(image_paths) : image_paths[i] \in missing

\* C15: with a missing image file, an empty image list or a non-existent
\* audio, create_video_from_images and create_multi_video_with_separators fail
\* at the validation: no media handle is ever opened, no image rendered, no
\* division made, no segment or timeline built and nothing written.
C15_ValidationFailsBeforeWork ==
    (Pipeline /\ InputsInvalid) =>
        /\ pc \in {"start", "failed"}
        /\ pc = "failed" => err \in {"FileNotFoundError", "ValueError"}
        /\ handles = {}
        /\ ~written
        /\ ~Divided /\ image_clips = <<>>
        /\ image_groups = <<>> /\ video_segments = <<>> /\ final_clips = <<>>

\* the multi pipeline has failed on the one missing file of a list of images
C15_Witness ==
    /\ op = "multi"
    /\ pc = "failed"
    /\ audio_exists
    /\ Len(image_paths) >= 2
    /\ missing # {}
    /\ err = "FileNotFoundError"

\* the groups of which at least one image loads
Renders(g) == \E p \in Range(g.images) : p \notin corrupt
RenderingPrefixes ==
    {image_groups[k].prefix :
        k \in {n \in 1..Len(image_groups) : Renders(image_groups[n])}}
GroupLoopDone == image_groups # <<>> /\ gi > Len(image_groups)

\* C16: a group whose every image fails to render contributes no Segment and
\* raises no error to the caller, and the other groups are still processed:
\* after the loop there is one segment for each group that has an image that
\* loads; if there is such a group the pipeline goes on to the concatenation
\* and the write, can fail only in the write, and has written the output when
\* it returns.
C16_FailedGroupIsDropped ==
    ~InputsInvalid =>
        /\ GroupLoopDone =>
              /\ {video_segments[i].prefix : i \in 1..Len(video_segments)}
                    = RenderingPrefixes
              /\ Len(video_segments) = Cardinality(RenderingPrefixes)
        /\ (pc = "failed" /\ RenderingPrefixes # {}) =>
              /\ err = "OSError"
              /\ final_video # RatInt(0)
        /\ pc = "done" =>
              /\ written
              /\ Cardinality(SegmentIdx(final_clips)) = Cardinality(RenderingPrefixes)

\* the output is written from two segments, the middle group being dropped
C16_Witness ==
    /\ pc = "done"
    /\ written
    /\ Len(sorted_groups) = 3
    /\ Len(sorted_groups[2].images) = 2
    /\ ~Renders(sorted_groups[2])
    /\ Len(video_segments) = 2

\* C17: when no group yields a Segment the multi pipeline fails with the
\* ValueError of "no valid segments", nothing having been written, and no
\* state past the group loop is reached; and whenever either pipeline mode
\* fails, the last report to the progress sink is the failure report, with
\* percent 0.
C17_FailureReported ==
    Pipeline =>
        /\ (op = "multi" /\ ~InputsInvalid /\ GroupLoopDone
               /\ RenderingPrefixes = {}) =>
              /\ pc \in {"segments", "failed"}
              /\ ~written
              /\ pc = "failed" => err = "ValueError"
        /\ pc = "failed" =>
              /\ err # "none"
              /\ has_callback =>
                    sink # <<>> /\ sink[Len(sink)] = RatInt(0)

\* the multi pipeline has failed for want of a segment: three groups, every
\* image of which failed to load
C17_Witness ==
    /\ op = "multi"
    /\ pc = "failed"
    /\ err = "ValueError"
    /\ Len(image_groups) = 3
    /\ GroupLoopDone
    /\ video_segments = <<>>
    /\ sink[Len(sink)] = RatInt(0)

PercentsInRange ==
    \A i \in 1..Len(sink) :
        RatLeq(RatInt(0), sink[i]) /\ RatLeq(sink[i], RatInt(100))

\* C18 (as stated): within one invocation of an engine operation the percents
\* passed to the progress sink never decrease and all lie in [0, 100], on
\* every execution path.
C18_PercentsNeverDecrease ==
    /\ PercentsInRange
    /\ \A i, j \in 1..Len(sink) : i < j => RatLeq(sink[i], sink[j])

\* C18 (amended): the percents all lie in [0, 100] and never decrease, but
\* for the failure report: the percent 0 that ends the reports of a failed
\* invocation of either pipeline mode.
C18_PercentsNeverDecreaseUntilFailure ==
    /\ PercentsInRange
    /\ \A i, j \in 1..Len(sink) :
          i < j =>
              \/ RatLeq(sink[i], sink[j])
              \/ /\ Pipeline /\ pc = "failed"
                 /\ j = Len(sink) /\ sink[j] = RatInt(0)

\* a failed invocation: rising percents, then the 0 of the failure report
C18_Witness ==
    /\ pc = "failed"
    /\ Len(sink) >= 4
    /\ RatLess(sink[1], sink[Len(sink) - 1])
    /\ sink[Len(sink)] = RatInt(0)

\* C19: when an invocation that writes or analyses a file returns to its
\* caller, normally or by raising, every media handle it opened has been
\* closed.
C19_HandlesClosedAtExit ==
    (/\ pc \in {"done", "failed", "returned"}
     /\ op = "single" => output_given) =>
        handles = {}

-----------------------------------------------------------------------------
(* Properties of concurrent invocations *)

\* C20: two concurrent invocations of create_multi_video_with_separators on
\* different inputs and output paths share no mutable state: nothing that one
\* of them writes or reads is read or written by the other, and so each
\* output holds the audio of its own invocation.
C20_NothingShared ==
    /\ \A r \in Resources : Cardinality(touched[r]) <= 1
    /\ \A w \in Workers : muxed[w] \in {NoWorker, w}

-----------------------------------------------------------------------------
(* Properties of get_aspect_ratio_dimensions *)

\* C21: get_aspect_ratio_dimensions returns (1080, 1080) for '1:1',
\* (1920, 1080) for '16:9', (1080, 1920) for '9:16' and (1920, 1080) for
\* every other string, and raises nothing.
C21_AspectRatioMapping ==
    /\ err = "none"
    /\ (op = "aspect" /\ pc = "returned") =>
          dimensions =
              IF aspect_ratio = <<"1", ":", "1">> THEN <<1080, 1080>>
              ELSE IF aspect_ratio = <<"9", ":", "1", "6">> THEN <<1080, 1920>>
              ELSE <<1920, 1080>>

\* a string that is no preset has been mapped to the landscape size
C21_Witness ==
    /\ op = "aspect" /\ pc = "returned"
    /\ aspect_ratio = <<"6", ":", "9">>
    /\ dimensions = <<1920, 1080>>

-----------------------------------------------------------------------------
(* Further properties of create_video_from_images *)

ClipHandles ==
    {FinalClip, MainAudio} \cup
    {ImageHandle(image_clips[k].path) : k \in 1..Len(image_clips)}

\* C22: with an output path create_video_from_images, when it returns, has
\* written the file and returns None; with no output path it returns the
\* composed clip, writes no file, makes no directory and leaves the handles
\* of the clip (the final clip, the audio, the image clips) open.
C22_FileOrClip ==
    op = "single" =>
        /\ (output_given /\ pc = "done") =>
              written /\ made_dir /\ returned = "None"
        /\ ~output_given =>
              /\ ~written /\ ~made_dir /\ returned # "None"
              /\ pc = "done" =>
                    /\ returned = "clip"
                    /\ final_clip = SumDurations(image_clips)
                    /\ handles = ClipHandles

\* a clip of two images returned in memory
C22_Witness ==
    /\ op = "single" /\ pc = "done"
    /\ ~output_given
    /\ returned = "clip"
    /\ Len(image_clips) = 2
    /\ Cardinality(handles) = 4

-----------------------------------------------------------------------------
(* Properties of the duration coercion *)

\* C23: immediately before the final concatenation every member clip of the
\* Timeline, Segment or Separator, has a duration that is a number >= 0, a
\* duration None having been replaced by 0, for every separator duration.
C23_DurationsCoerced ==
    pc = "concat" =>
        \A i \in 1..Len(final_clips) :
            /\ final_clips[i].duration # NoneDuration
            /\ RatLeq(RatInt(0), final_clips[i].duration)

-----------------------------------------------------------------------------
(* Idempotence of group_images_by_prefix *)

-----------------------------------------------------------------------------
(* Segments of groups with images that fail to render *)

\* the images of a list that load, in the order of the list
Kept(paths) == SelectSeq(paths, LAMBDA p : p \notin corrupt)

GroupOf(prefix) ==
    image_groups[CHOOSE k \in 1..Len(image_groups) :
                    image_groups[k].prefix = prefix]

\* C25: the clip made from a list of images of which some fail to render
\* consists of exactly the images that rendered, in the order of the list,
\* no error is raised for the skipped ones, and its duration is the sum of the
\* durations of its sub-clips, each the audio duration over the image count
\* of the list; so for every Segment of the multi pipeline and its group.
C25_SegmentOfRenderedImages ==
    /\ (op = "single" /\ pc \in {"combine", "output", "done"}) =>
          /\ err = "none"
          /\ [k \in 1..Len(image_clips) |-> image_clips[k].path]
                = Kept(image_paths)
          /\ pc # "combine" =>
                /\ final_clip = SumDurations(image_clips)
                /\ final_clip = Rat(audio_duration * Len(image_clips),
                                    Len(image_paths))
    /\ op = "multi" =>
          \A k \in 1..Len(video_segments) :
              LET s == video_segments[k]
                  g == GroupOf(s.prefix)
              IN  /\ s.clips = Kept(g.images)
                  /\ s.clips # <<>>
                  /\ s.duration = Rat(audio_duration * Len(s.clips),
                                      Len(g.images))

\* three images of which the second failed: a clip of the first and third
C25_Witness ==
    /\ op = "single" /\ pc = "done"
    /\ Len(image_paths) = 3
    /\ corrupt = {image_paths[2]}
    /\ Len(image_clips) = 2
    /\ image_clips[1].path = image_paths[1]
    /\ image_clips[2].path = image_paths[3]

\* C26: a frame is classified green only if its green pixels divided by all
\* its pixels are strictly more than the threshold; a frame whose green
\* fraction equals the threshold is not green, so with threshold 1 no frame
\* is green, not even a frame of green pixels only.
C26_StrictThreshold ==
    (op = "frame" /\ pc = "returned") =>
        LET green == Cardinality({k \in 1..Len(frame) : InGreenRange(frame[k])})
            all == Len(frame)
        IN  /\ returned_green => green * threshold[2] > threshold[1] * all
            /\ green * threshold[2] = threshold[1] * all => ~returned_green
            /\ threshold = RatInt(1) => ~returned_green

C26_Witness ==
    /\ op = "frame" /\ pc = "returned"
    /\ threshold = RatInt(1)
    /\ Len(frame) > 1
    /\ \A k \in 1..Len(frame) : InGreenRange(frame[k])
    /\ ~returned_green

\* C27: a sample whose frame fails to decode changes nothing in the
\* interval-tracking state: the open-interval start and the closed intervals
\* are the same after the failed sample as before it, and the scan goes on
\* with the next timestamp.
C27_FailedSampleChangesNothing ==
    [][(/\ op = "detect"
        /\ Len(samples') = Len(samples) + 1
        /\ samples'[Len(samples')] = "fail")
       => /\ current_green_start' = current_green_start
          /\ green_segments' = green_segments
          /\ pc' = "scan"
          /\ err' = "none"]_vars

C27_Witness ==
    /\ op = "detect" /\ pc = "scan"
    /\ Len(samples) >= 4
    /\ samples[Len(samples)] = "fail"
    /\ samples[Len(samples) - 1] = "green"
    /\ current_green_start = SampleTime(Len(samples) - 2)
    /\ green_segments # <<>>
    /\ SampleTime(Len(samples)) < video_duration

\* C28: for every video of duration > 0, durations shorter than the sampling
\* interval included, the scan samples exactly the timestamps k * interval
\* below the duration and returns an interval list without raising, with or
\* without a progress sink.
C28_ScanReturnsForEveryDuration ==
    op = "detect" =>
        /\ err = "none"
        /\ pc # "failed"
        /\ \A k \in 1..Len(samples) : SampleTime(k - 1) < video_duration
        /\ pc = "returned" => SampleTime(Len(samples)) >= video_duration

\* the n-th index of a set of indices, and the time at which the clip at an
\* index starts and ends in a concatenation
NthIdx(S, n) == CHOOSE x \in S : Cardinality({y \in S : y <= x}) = n
StartOffset(clips, i) == SumDurations(SubSeq(clips, 1, i - 1))
EndOffset(clips, i) == SumDurations(SubSeq(clips, 1, i))
AudioIdx(pieces) == {i \in 1..Len(pieces) : pieces[i].kind = "audio"}
SilenceIdx(pieces) == {i \in 1..Len(pieces) : pieces[i].kind = "silence"}

\* C29: in the final output audio and video stay aligned: the i-th segment
\* of the timeline starts where the i-th full copy of the audio starts in the
\* audio track, and every separator spans the time range of a silent span,
\* also when an image failed to render or a group was dropped.
C29_AudioAlignedWithVideo ==
    (op = "multi" /\ AudioBuilt) =>
        LET segs == SegmentIdx(final_clips)
            seps == SeparatorIdx(final_clips)
            auds == AudioIdx(audio_segments)
            sils == SilenceIdx(audio_segments)
        IN  /\ Cardinality(segs) <= Cardinality(auds)
            /\ \A n \in 1..Cardinality(segs) :
                 StartOffset(final_clips, NthIdx(segs, n))
                   = StartOffset(audio_segments, NthIdx(auds, n))
            /\ Cardinality(seps) <= Cardinality(sils)
            /\ \A n \in 1..Cardinality(seps) :
                 /\ StartOffset(final_clips, NthIdx(seps, n))
                      = StartOffset(audio_segments, NthIdx(sils, n))
                 /\ EndOffset(final_clips, NthIdx(seps, n))
                      = EndOffset(audio_segments, NthIdx(sils, n))

\* C30: the progress entry of a session reports percent 100 only when the
\* worker started by the most recent /create_video request of the session
\* has finished without error: never after a worker that failed, and never
\* while the most recently started worker is still running.
C30_HundredOnlyAfterLatestWorker ==
    (op = "gui" /\ get_progress.progress = 100) =>
        /\ threads # <<>>
        /\ threads[Len(threads)].state \in {"completing", "finished"}

=============================================================================
